---- MODULE Spec2Model ----
(***************************************************************************)
(* Model of the projection engine of pension_calculator.py: the parsing of *)
(* the promotion years (lines 132-136), the initialisation of the          *)
(* accumulators and series (lines 138-156), the work phase loop (lines     *)
(* 158-190) and the retirement phase loop (lines 192-217).                 *)
(*                                                                         *)
(* Python floats are modelled as exact rationals <<numerator, denominator>>*)
(* in lowest terms with a positive denominator (the specification treats   *)
(* all monetary quantities as real numbers); rounding only happens where   *)
(* the code formats a value for the table (Format).                        *)
(***************************************************************************)
EXTENDS Integers, Naturals, Sequences, FiniteSets, TLC

VARIABLES
    \* inputs (lines 57-124), fixed for a run
    step_increase, starting_wage, work_years, cola_increase,
    promotion_years_input, retirement_years, promotion_increase,
    pension_tax_rate, starting_allowance, index_returns_rate,
    \* engine state (lines 132-156)
    promotion_years, pension_taxed_total, pension_redeemed_total,
    personal_balance, salary, pension_redeemed, market_returns,
    years, pension_fund_values, personal_fund_values, yearly_data,
    \* loop variables and position in the script
    work_year, ret_year, pc,
    \* history: which escalation branches each work year took (lines 186-190)
    escalation,
    \* history: the market_returns credited in each period (lines 165, 198)
    returns_history,
    \* the same script run on the canonical promotion list (sorted, distinct,
    \* within 1..work_years): salary, totals and balance of that second run
    canon

vars == <<step_increase, starting_wage, work_years, cola_increase,
          promotion_years_input, retirement_years, promotion_increase,
          pension_tax_rate, starting_allowance, index_returns_rate,
          promotion_years, pension_taxed_total, pension_redeemed_total,
          personal_balance, salary, pension_redeemed, market_returns,
          years, pension_fund_values, personal_fund_values, yearly_data,
          work_year, ret_year, pc, escalation, returns_history, canon>>

inputs == <<step_increase, starting_wage, work_years, cola_increase,
            promotion_years_input, retirement_years, promotion_increase,
            pension_tax_rate, starting_allowance, index_returns_rate>>

-----------------------------------------------------------------------------
(* Bounds of the model *)

MaxWorkYears == 6

MaxRetirementYears == 2

-----------------------------------------------------------------------------
(* Exact rational arithmetic standing for Python's float arithmetic *)

\* The arithmetic is written as functions: a function is applied to the
\* value of its argument, so an operand is computed once however often the
\* body reads it.

Abs(n) == IF n < 0 THEN -n ELSE n

GCD[p \in Nat \X Nat] == IF p[2] = 0 THEN p[1] ELSE GCD[<<p[2], p[1] % p[2]>>]

\* the fraction n/d in lowest terms with a positive denominator
Norm[p \in Int \X Int] ==
    LET g == GCD[<<Abs(p[1]), Abs(p[2])>>]
        s == IF p[2] < 0 THEN -1 ELSE 1
    IN  <<s * (p[1] \div g), s * (p[2] \div g)>>

R(n, d) == Norm[<<n, d>>]

Zero == <<0, 1>>

One == <<1, 1>>

Product[p \in (Int \X Int) \X (Int \X Int)] ==
    LET a == p[1]
        b == p[2]
        g1 == GCD[<<Abs(a[1]), b[2]>>]
        g2 == GCD[<<Abs(b[1]), a[2]>>]
    IN  IF a[1] = 0 \/ b[1] = 0 THEN Zero
        ELSE <<(a[1] \div g1) * (b[1] \div g2), (a[2] \div g2) * (b[2] \div g1)>>

Sum[p \in (Int \X Int) \X (Int \X Int)] ==
    LET a == p[1]
        b == p[2]
        g == GCD[<<a[2], b[2]>>]
        l == (a[2] \div g) * b[2]
    IN  Norm[<<a[1] * (l \div a[2]) + b[1] * (l \div b[2]), l>>]

RMul(a, b) == Product[<<a, b>>]

RAdd(a, b) == Sum[<<a, b>>]

RNeg(a) == <<-a[1], a[2]>>

RSub(a, b) == RAdd(a, RNeg(b))

RLeq(a, b) == RSub(a, b)[1] <= 0

RLt(a, b) == RSub(a, b)[1] < 0

-----------------------------------------------------------------------------
(* f"${x:,.0f}": the value rounded to an integer, ties to even, with its   *)
(* sign; the thousands separators carry no information and are left out.   *)

Format(x) ==
    LET an == Abs(x[1])
        q == an \div x[2]
        r == an % x[2]
        digits == IF 2 * r > x[2] THEN q + 1
                  ELSE IF 2 * r < x[2] THEN q
                  ELSE IF q % 2 = 0 THEN q ELSE q + 1
    IN  [neg |-> x[1] < 0, digits |-> digits]

\* the literal "$0" of lines 178-179 and 207-208
DollarZero == [neg |-> FALSE, digits |-> 0]

\* the number a formatted amount reads as
Amount(f) == IF f.neg THEN -f.digits ELSE f.digits

\* f"W{work_year}" and f"R{ret_year}"
Label(phase, n) == <<phase, n>>

-----------------------------------------------------------------------------
(* Parsing of the promotion years text, line 134 *)

DecimalChars == {"0", "1", "2", "3", "4", "5", "6", "7", "8", "9"}

\* a character str.isdigit() accepts and int() rejects
SuperscriptTwo == "sup2"

DigitValue(c) ==
    CASE c = "0" -> 0 [] c = "1" -> 1 [] c = "2" -> 2 [] c = "3" -> 3
      [] c = "4" -> 4 [] c = "5" -> 5 [] c = "6" -> 6 [] c = "7" -> 7
      [] c = "8" -> 8 [] c = "9" -> 9

\* str.split(","): the pieces between the commas, empty pieces kept
RECURSIVE Split(_, _)
Split(text, cur) ==
    IF text = <<>> THEN <<cur>>
    ELSE IF Head(text) = "," THEN <<cur>> \o Split(Tail(text), <<>>)
    ELSE Split(Tail(text), Append(cur, Head(text)))

RECURSIVE LStrip(_)
LStrip(tok) ==
    IF tok # <<>> /\ Head(tok) = " " THEN LStrip(Tail(tok)) ELSE tok

RECURSIVE RStrip(_)
RStrip(tok) ==
    IF tok # <<>> /\ tok[Len(tok)] = " "
    THEN RStrip(SubSeq(tok, 1, Len(tok) - 1)) ELSE tok

\* str.strip()
Strip(tok) == RStrip(LStrip(tok))

\* str.isdigit(): non-empty and every character a digit
IsDigit(tok) ==
    /\ tok # <<>>
    /\ \A i \in 1..Len(tok) : tok[i] \in DecimalChars \cup {SuperscriptTwo}

\* int(tok) raises ValueError
IntRaises(tok) == \E i \in 1..Len(tok) : tok[i] \notin DecimalChars

RECURSIVE ToInt(_)
ToInt(tok) ==
    IF tok = <<>> THEN 0
    ELSE 10 * ToInt(SubSeq(tok, 1, Len(tok) - 1)) + DigitValue(tok[Len(tok)])

\* lines 133-136: the list comprehension, and [] when int() raises
ParsePromotionYears(text) ==
    LET pieces == Split(text, <<>>)
        stripped == [i \in 1..Len(pieces) |-> Strip(pieces[i])]
        kept == SelectSeq(stripped, IsDigit)
    IN  IF \E i \in 1..Len(kept) : IntRaises(kept[i]) THEN <<>>
        ELSE [i \in 1..Len(kept) |-> ToInt(kept[i])]

-----------------------------------------------------------------------------
(* Inputs the model draws from *)

WorkYearsChoices == 1..MaxWorkYears

RetirementYearsChoices == 1..MaxRetirementYears

StartingWages == {1}

ColaRates == {R(1, 1), R(2, 1), R(21, 20)}

StepRates == {R(1, 1), R(2, 1)}

PromotionRates == {R(2, 1), R(-1, 1)}

PensionTaxRates == {R(0, 1), R(1, 2)}

StartingAllowances == {R(3, 1), R(40, 1), R(-2, 1)}

IndexReturnsRates == {R(1, 1), R(2, 1), R(1, 2)}

PromotionTexts ==
    { <<"2", ",", " ", "4">>,
      <<"4", ",", "2", ",", "2">>,
      << >>,
      <<"1", "2", ",", "x", ",", " ", "1", " ">>,
      <<"3", ",", SuperscriptTwo>> }

-----------------------------------------------------------------------------
(* The engine *)

\* line 187: if 1 <= work_year < 5
StepEligible(wy) == 1 <= wy /\ wy < 5

\* mutant: the promotion is applied once per occurrence in the list
PromotionCount_PerOccurrence(wy, promos) ==
    Cardinality({i \in 1..Len(promos) : promos[i] = wy})

\* line 189: work_year in promotion_years; the number of times line 190 runs
PromotionCount(wy, promos) ==
    IF \E i \in 1..Len(promos) : promos[i] = wy THEN 1 ELSE 0

RECURSIVE RPow(_, _)
RPow(x, n) == IF n = 0 THEN One ELSE RMul(x, RPow(x, n - 1))

\* lines 186-190: the salary of the next year
EscalateSalary(sal, wy, promos) ==
    LET s1 == RMul(sal, cola_increase)
        s2 == IF StepEligible(wy) THEN RMul(s1, step_increase) ELSE s1
    IN  RMul(s2, RPow(promotion_increase, PromotionCount(wy, promos)))

\* mutant: the growth factor is used where the net growth rate is meant
MarketReturns_Gross(balance) == RMul(balance, index_returns_rate)

\* lines 165 and 198: market_returns = personal_balance * (index_returns_rate-1)
MarketReturns(balance) == RMul(balance, RSub(index_returns_rate, One))

\* mutant: the whole salary is deposited instead of the pension tax
WorkBalance_DepositsSalary(balance, returns, tax) ==
    RAdd(RAdd(balance, returns), salary)

\* mutant: the market returns are not credited to the balance
WorkBalance_NoReturns(balance, returns, tax) == RAdd(balance, tax)

\* line 166
WorkBalance(balance, returns, tax) == RAdd(RAdd(balance, returns), tax)

\* mutant: the balance is floored at zero
RetirementBalance_Floored(balance, redeemed, returns) ==
    LET b == RAdd(RSub(balance, redeemed), returns)
    IN  IF b[1] < 0 THEN Zero ELSE b

\* line 199
RetirementBalance(balance, redeemed, returns) ==
    RAdd(RSub(balance, redeemed), returns)

\* mutant: the allowance grows by the step increase instead of the COLA
EscalateAllowance_ByStep(redeemed) == RMul(redeemed, step_increase)

\* line 217: pension_redeemed *= cola_increase
EscalateAllowance(redeemed) == RMul(redeemed, cola_increase)

\* lines 160-166 and 186-190 on one run's salary, total and balance
WorkStep(st, wy, promos) ==
    LET tax == RMul(st.salary, pension_tax_rate)
        ret == MarketReturns(st.personal_balance)
    IN  [salary |-> EscalateSalary(st.salary, wy, promos),
         pension_tax_this_year |-> tax,
         pension_taxed_total |-> RAdd(st.pension_taxed_total, tax),
         market_returns |-> ret,
         personal_balance |-> WorkBalance(st.personal_balance, ret, tax)]

\* lines 195-199 on one run's total and balance
RetirementStep(st, redeemed) ==
    LET ret == MarketReturns(st.personal_balance)
    IN  [pension_redeemed_total |-> RAdd(st.pension_redeemed_total, redeemed),
         market_returns |-> ret,
         personal_balance |-> RetirementBalance(st.personal_balance, redeemed, ret)]

\* the distinct values of a list that lie in 1..n, in increasing order
RECURSIVE SortedSeq(_)
SortedSeq(S) ==
    IF S = {} THEN <<>>
    ELSE LET m == CHOOSE x \in S : \A y \in S : x <= y
         IN  <<m>> \o SortedSeq(S \ {m})

Canonical(promos, n) ==
    SortedSeq({promos[i] : i \in 1..Len(promos)} \cap (1..n))

\* mutant: the loop stops one year early, range(1, int(work_years))
LastWorkYear_OneShort(wy) == wy + 1 >= work_years

\* line 159: range(1, int(work_years) + 1) is exhausted after this year
LastWorkYear(wy) == wy >= work_years

\* mutant: the loop runs one year more, range(1, retirement_years + 2)
LastRetirementYear_OneMore(ry) == ry > retirement_years

\* line 193: range(1, retirement_years + 1) is exhausted after this year
LastRetirementYear(ry) == ry >= retirement_years

\* lines 173-182
WorkRow(wy, sal, w) ==
    [Year |-> Label("W", wy),
     Salary |-> Format(sal),
     PensionTaxed |-> Format(w.pension_tax_this_year),
     PensionTaxedTotal |-> Format(w.pension_taxed_total),
     PensionRedeemed |-> DollarZero,
     PensionRedeemedTotal |-> DollarZero,
     MarketReturns |-> Format(w.market_returns),
     Balance |-> Format(w.personal_balance)]

\* lines 206-213 (no Salary key: the column holds NaN)
RetirementRow(ry, redeemed, r) ==
    [Year |-> Label("R", ry),
     Salary |-> "NaN",
     PensionTaxed |-> DollarZero,
     PensionTaxedTotal |-> DollarZero,
     PensionRedeemed |-> Format(redeemed),
     PensionRedeemedTotal |-> Format(r.pension_redeemed_total),
     MarketReturns |-> Format(r.market_returns),
     Balance |-> Format(r.personal_balance)]

-----------------------------------------------------------------------------

\* the inputs of a run
InitInputs ==
    /\ step_increase \in StepRates
    /\ starting_wage \in StartingWages
    /\ work_years \in WorkYearsChoices
    /\ cola_increase \in ColaRates
    /\ promotion_years_input \in PromotionTexts
    /\ retirement_years \in RetirementYearsChoices
    /\ promotion_increase \in PromotionRates
    /\ pension_tax_rate \in PensionTaxRates
    /\ starting_allowance \in StartingAllowances
    /\ index_returns_rate \in IndexReturnsRates
    \* a 5% COLA only over short horizons: its powers of 20 outgrow TLC's integers
    /\ cola_increase = R(21, 20) => work_years + retirement_years <= 3

\* nothing of the engine has run yet
InitEngine ==
    /\ promotion_years = <<>>
    /\ pension_taxed_total = Zero
    /\ pension_redeemed_total = Zero
    /\ personal_balance = Zero
    /\ salary = Zero
    /\ pension_redeemed = Zero
    /\ market_returns = Zero
    /\ years = <<>>
    /\ pension_fund_values = <<>>
    /\ personal_fund_values = <<>>
    /\ yearly_data = <<>>
    /\ work_year = 0
    /\ ret_year = 0
    /\ pc = "start"
    /\ escalation = <<>>
    /\ returns_history = <<>>
    /\ canon = [salary |-> Zero, pension_taxed_total |-> Zero,
                pension_redeemed_total |-> Zero, personal_balance |-> Zero]

Init == InitInputs /\ InitEngine

\* the runs whose rates are the doubling ones: every horizon, every
\* promotion text, both contribution rates
InitDoubling ==
    /\ InitInputs
    /\ cola_increase = R(2, 1)
    /\ step_increase = R(2, 1)
    /\ promotion_increase = R(2, 1)
    /\ starting_allowance = R(40, 1)
    /\ index_returns_rate = R(1, 2)
    /\ InitEngine

\* lines 132-156: parse the promotion years, initialise accumulators and series
Initialize ==
    /\ pc = "start"
    /\ promotion_years' = ParsePromotionYears(promotion_years_input)
    /\ pension_taxed_total' = Zero
    /\ pension_redeemed_total' = Zero
    /\ personal_balance' = Zero
    /\ salary' = R(starting_wage, 1)
    /\ pension_redeemed' = starting_allowance
    /\ years' = <<Label("W", 0)>>
    /\ pension_fund_values' = <<Zero>>
    /\ personal_fund_values' = <<Zero>>
    /\ yearly_data' = <<>>
    /\ work_year' = 1
    /\ pc' = "work"
    /\ canon' = [salary |-> R(starting_wage, 1), pension_taxed_total |-> Zero,
                 pension_redeemed_total |-> Zero, personal_balance |-> Zero]
    /\ UNCHANGED <<inputs, market_returns, ret_year, escalation, returns_history>>

\* lines 159-190: one iteration of the work phase loop
WorkYear ==
    /\ pc = "work"
    /\ LET cur == [salary |-> salary, pension_taxed_total |-> pension_taxed_total,
                   personal_balance |-> personal_balance]
           w == WorkStep(cur, work_year, promotion_years)
           c == WorkStep(canon, work_year, Canonical(promotion_years, work_years))
       IN  /\ pension_taxed_total' = w.pension_taxed_total
           /\ market_returns' = w.market_returns
           /\ personal_balance' = w.personal_balance
           /\ years' = Append(years, Label("W", work_year))
           /\ pension_fund_values' = Append(pension_fund_values, Zero)
           /\ personal_fund_values' = Append(personal_fund_values, w.personal_balance)
           /\ yearly_data' = Append(yearly_data, WorkRow(work_year, salary, w))
           /\ salary' = w.salary
           /\ returns_history' = Append(returns_history, w.market_returns)
           /\ escalation' = Append(escalation,
                  [year |-> work_year,
                   step |-> StepEligible(work_year),
                   promotion |-> PromotionCount(work_year, promotion_years)])
           /\ canon' = [canon EXCEPT !.salary = c.salary,
                                     !.pension_taxed_total = c.pension_taxed_total,
                                     !.personal_balance = c.personal_balance]
    /\ IF LastWorkYear(work_year)
       THEN /\ pc' = "retire"
            /\ ret_year' = 1
            /\ work_year' = work_year
       ELSE /\ pc' = "work"
            /\ work_year' = work_year + 1
            /\ ret_year' = ret_year
    /\ UNCHANGED <<inputs, promotion_years, pension_redeemed_total, pension_redeemed>>

\* lines 193-217: one iteration of the retirement phase loop
RetirementYear ==
    /\ pc = "retire"
    /\ LET cur == [pension_redeemed_total |-> pension_redeemed_total,
                   personal_balance |-> personal_balance]
           r == RetirementStep(cur, pension_redeemed)
           c == RetirementStep(canon, pension_redeemed)
       IN  /\ pension_redeemed_total' = r.pension_redeemed_total
           /\ market_returns' = r.market_returns
           /\ personal_balance' = r.personal_balance
           /\ years' = Append(years, Label("R", ret_year))
           /\ pension_fund_values' = Append(pension_fund_values, r.pension_redeemed_total)
           /\ personal_fund_values' = Append(personal_fund_values, r.personal_balance)
           /\ yearly_data' = Append(yearly_data, RetirementRow(ret_year, pension_redeemed, r))
           /\ returns_history' = Append(returns_history, r.market_returns)
           /\ canon' = [canon EXCEPT !.pension_redeemed_total = c.pension_redeemed_total,
                                     !.personal_balance = c.personal_balance]
    /\ pension_redeemed' = EscalateAllowance(pension_redeemed)
    /\ IF LastRetirementYear(ret_year)
       THEN /\ pc' = "done"
            /\ ret_year' = ret_year
       ELSE /\ pc' = "retire"
            /\ ret_year' = ret_year + 1
    /\ UNCHANGED <<inputs, promotion_years, pension_taxed_total, salary,
                   work_year, escalation>>

Next == Initialize \/ WorkYear \/ RetirementYear

Spec == Init /\ [][Next]_vars

\* the script runs to its end: no step is left waiting
FairSpec == InitDoubling /\ [][Next]_vars /\ WF_vars(Next)

-----------------------------------------------------------------------------
(* Helpers of the properties *)

\* indexes of the series entries of each phase
WorkIndexes == {i \in 1..Len(years) : years[i][1] = "W"}

RetirementIndexes == {i \in 1..Len(years) : years[i][1] = "R"}

\* the table rows of each phase
WorkRows == SelectSeq(yearly_data, LAMBDA row : row.Year[1] = "W")

RetirementRows == SelectSeq(yearly_data, LAMBDA row : row.Year[1] = "R")

\* loop bodies executed so far
WorkSteps == Len(escalation)

RetirementSteps == Cardinality(RetirementIndexes)

RECURSIVE SumSeq(_)
SumSeq(s) == IF s = <<>> THEN Zero ELSE RAdd(Head(s), SumSeq(Tail(s)))

-----------------------------------------------------------------------------
\* C1: when the projection has finished, the period labels are exactly
\* W0, W1, ..., W{work_years}, R1, ..., R{retirement_years} in that order, and
\* each tracked series holds 1 + work_years + retirement_years entries; while
\* it runs, the labels are a prefix of that sequence.
C1_ExpectedYears ==
    [i \in 1..(1 + work_years + retirement_years) |->
        IF i <= 1 + work_years THEN <<"W", i - 1>>
        ELSE <<"R", i - 1 - work_years>>]

C1_PeriodLabels ==
    /\ Len(years) <= 1 + work_years + retirement_years
    /\ years = SubSeq(C1_ExpectedYears, 1, Len(years))
    /\ pc = "done" =>
          /\ years = C1_ExpectedYears
          /\ Len(pension_fund_values) = 1 + work_years + retirement_years
          /\ Len(personal_fund_values) = 1 + work_years + retirement_years

C1_Witness ==
    /\ pc = "done"
    /\ work_years >= 3
    /\ retirement_years >= 2
    /\ Len(years) = 1 + work_years + retirement_years

\* C2: the step multiplier is applied at the end of employment period n
\* exactly when 2 <= n <= 5.
C2_StepWindow ==
    \A i \in 1..Len(escalation) :
        escalation[i].step <=> (2 <= escalation[i].year /\ escalation[i].year <= 5)

\* C3: with starting_wage >= 0, a contribution rate in [0,1] and positive
\* salary multipliers, the cumulative contribution total of the period records
\* never decreases over the employment periods, and the total recorded for
\* every retirement period equals the one recorded for W{work_years}.
C3_Precondition ==
    /\ starting_wage >= 0
    /\ RLeq(Zero, pension_tax_rate) /\ RLeq(pension_tax_rate, One)
    /\ RLt(Zero, cola_increase)
    /\ RLt(Zero, step_increase)
    /\ RLt(Zero, promotion_increase)

C3_ContributionTotals ==
    C3_Precondition =>
        /\ \A i \in 1..Len(WorkRows) :
              /\ Amount(WorkRows[i].PensionTaxedTotal) >= 0
              /\ i > 1 => Amount(WorkRows[i - 1].PensionTaxedTotal)
                            <= Amount(WorkRows[i].PensionTaxedTotal)
        /\ \A j \in 1..Len(RetirementRows) :
              RetirementRows[j].PensionTaxedTotal
                  = WorkRows[work_years].PensionTaxedTotal

\* C4: the cumulative payout total is zero in W0 and in every employment
\* period; at R{m} it is the sum of the allowances of R1..R{m}, the first
\* being starting_allowance and each later one the previous times the COLA;
\* with starting_allowance >= 0 and a COLA >= 0 it never decreases from one
\* retirement period to the next.
RECURSIVE C4_Allowance(_)
C4_Allowance(m) ==
    IF m = 1 THEN starting_allowance
    ELSE <<C4_Allowance(m - 1)[1] * cola_increase[1],
           C4_Allowance(m - 1)[2] * cola_increase[2]>>

RECURSIVE C4_AllowanceSum(_)
C4_AllowanceSum(m) ==
    IF m = 0 THEN <<0, 1>>
    ELSE LET a == C4_Allowance(m)
             t == C4_AllowanceSum(m - 1)
         IN  <<t[1] * a[2] + a[1] * t[2], t[2] * a[2]>>

\* equality of two fractions, neither assumed to be in lowest terms
C4_Same(a, b) == a[1] * b[2] = b[1] * a[2]

C4_PayoutTotals ==
    /\ \A i \in WorkIndexes : pension_fund_values[i] = <<0, 1>>
    /\ \A i \in 1..Len(WorkRows) : WorkRows[i].PensionRedeemedTotal.digits = 0
    /\ pc \in {"start", "work"} => pension_redeemed_total = <<0, 1>>
    /\ \A i \in RetirementIndexes :
          /\ C4_Same(pension_fund_values[i], C4_AllowanceSum(years[i][2]))
          /\ (starting_allowance[1] >= 0 /\ cola_increase[1] >= 0) =>
                pension_fund_values[i - 1][1] * pension_fund_values[i][2]
                    <= pension_fund_values[i][1] * pension_fund_values[i - 1][2]
    /\ pc \in {"retire", "done"} =>
          pension_redeemed_total = pension_fund_values[Len(pension_fund_values)]

C4_Witness ==
    /\ pc = "done"
    /\ retirement_years >= 2
    /\ cola_increase = <<2, 1>>
    /\ starting_allowance = <<3, 1>>
    /\ pension_fund_values[Len(pension_fund_values)] = <<9, 1>>
    /\ pension_fund_values[work_years + 1] = <<0, 1>>

\* C5: if index_returns_rate is 1, the investment return of every period is
\* zero and after every period the balance equals the cumulative
\* contributions to date minus the cumulative payouts to date.
C5_NoGrowth ==
    index_returns_rate = <<1, 1>> =>
        /\ \A i \in 1..Len(returns_history) : returns_history[i][1] = 0
        /\ market_returns[1] = 0
        /\ \A i \in 1..Len(yearly_data) : yearly_data[i].MarketReturns.digits = 0
        /\ personal_balance
              = RSub(pension_taxed_total, pension_redeemed_total)
        /\ pc # "start" =>
              personal_fund_values[Len(personal_fund_values)]
                  = RSub(pension_taxed_total, pension_redeemed_total)

C5_Witness ==
    /\ index_returns_rate = <<1, 1>>
    /\ pc = "done"
    /\ pension_taxed_total[1] > 0
    /\ pension_redeemed_total[1] > 0
    /\ personal_balance[1] # 0

\* C6: if the contribution rate is 0, the investment balance is zero after
\* every employment period, so it is zero at the retirement boundary, and the
\* cumulative contribution total is zero.
C6_NoContribution ==
    pension_tax_rate = <<0, 1>> =>
        /\ \A i \in WorkIndexes : personal_fund_values[i][1] = 0
        /\ pc = "work" => personal_balance[1] = 0
        /\ pension_taxed_total[1] = 0
        /\ \A i \in 1..Len(WorkRows) :
              /\ WorkRows[i].Balance.digits = 0
              /\ WorkRows[i].PensionTaxedTotal.digits = 0
        /\ pc \in {"retire", "done"} =>
              personal_fund_values[work_years + 1][1] = 0

C6_Witness ==
    /\ pension_tax_rate = <<0, 1>>
    /\ pc = "retire"
    /\ ret_year = 1
    /\ work_years >= 3
    /\ index_returns_rate = <<2, 1>>
    /\ salary[1] > 1

\* C7: the run always ends, after the employment step has run exactly
\* work_years times and then the retirement step exactly retirement_years
\* times: no retirement step before the last employment step, no employment
\* step after the first retirement step, and no step once it has ended.
C7_Terminates ==
    /\ <>(pc = "done")
    /\ [](pc = "done" =>
            WorkSteps = work_years /\ RetirementSteps = retirement_years)
    /\ [](WorkSteps <= work_years /\ RetirementSteps <= retirement_years)
    /\ [](RetirementSteps > 0 => WorkSteps = work_years)
    /\ [][RetirementSteps > 0 => WorkSteps' = WorkSteps]_vars
    /\ [][pc # "done"]_vars

C7_Witness ==
    /\ pc = "done"
    /\ work_years = MaxWorkYears
    /\ retirement_years = MaxRetirementYears
    /\ WorkSteps = MaxWorkYears
    /\ RetirementSteps = MaxRetirementYears

\* C8: the projection depends on promotion_years only through the set of its
\* values within 1..work_years: the run on the list as given and the run on
\* that set agree on salary, contributions, balance and payouts after every
\* period, and the promotion multiplier is applied at most once per period.
C8_PromotionSet ==
    /\ salary = canon.salary
    /\ pension_taxed_total = canon.pension_taxed_total
    /\ personal_balance = canon.personal_balance
    /\ pension_redeemed_total = canon.pension_redeemed_total
    /\ \A i \in 1..Len(escalation) :
          /\ escalation[i].promotion <= 1
          /\ escalation[i].promotion = 1 <=>
                \E k \in 1..Len(promotion_years) :
                    promotion_years[k] = escalation[i].year

C8_Witness ==
    /\ pc = "done"
    /\ promotion_years = <<4, 2, 2>>
    /\ work_years = 3
    /\ pension_tax_rate[1] # 0
    /\ escalation[2].promotion = 1

\* C9: the retirement phase starts from the balance left by W{work_years};
\* in every retirement period the new balance is the previous balance minus
\* the allowance plus previous balance x (index_returns_rate - 1), without a
\* floor at zero: when the allowance exceeds the previous balance plus the
\* return, the recorded balance is negative, and it is the value the next
\* period computes from.
C9_Paid(i) == RSub(pension_fund_values[i], pension_fund_values[i - 1])

C9_Grown(i) ==
    <<personal_fund_values[i - 1][1] * index_returns_rate[1],
      personal_fund_values[i - 1][2] * index_returns_rate[2]>>

C9_NoFloor ==
    /\ \A i \in RetirementIndexes :
          /\ C4_Same(personal_fund_values[i], RSub(C9_Grown(i), C9_Paid(i)))
          /\ RLt(C9_Grown(i), C9_Paid(i)) => personal_fund_values[i][1] < 0
          /\ yearly_data[i - 1].Balance = Format(personal_fund_values[i])
    /\ pc # "start" =>
          personal_balance = personal_fund_values[Len(personal_fund_values)]

C9_Witness ==
    /\ pc = "done"
    /\ retirement_years >= 2
    /\ personal_fund_values[work_years + 1][1] > 0
    /\ personal_fund_values[work_years + 2][1] < 0
    /\ personal_fund_values[work_years + 3][1] < 0
    /\ yearly_data[work_years + 1].Balance.neg

\* C10: after every period the balance equals the cumulative contributions
\* minus the cumulative payouts plus the sum of the returns credited so far,
\* and the three tracked series always have the same length.
C10_Accounting ==
    /\ personal_balance
          = RAdd(RSub(pension_taxed_total, pension_redeemed_total),
                 SumSeq(returns_history))
    /\ Len(years) = Len(pension_fund_values)
    /\ Len(years) = Len(personal_fund_values)
    /\ pc # "start" => Len(years) = 1 + Len(returns_history)

C10_Witness ==
    /\ pc = "done"
    /\ pension_taxed_total[1] > 0
    /\ SumSeq(returns_history)[1] < 0
    /\ Len(years) >= 6

====
